---- MODULE Spec2Model ----
(***************************************************************************)
(* A model of cobbler's item classes (cobbler/items/__init__.py and        *)
(* cobbler/items/item.py): the identity fields and their setters, the      *)
(* three inheritance-resolution operations, the tree operations and the    *)
(* dictionary (de)serialisation of an item.                                *)
(*                                                                         *)
(* Python values are tagged records of one uniform shape, so that values   *)
(* of different Python types can be compared: t is the Python type, s the  *)
(* payload of a str/float/int/bool/enum (a sequence of characters), l the  *)
(* payload of a list of strings and d the payload of a dict (a function    *)
(* on DictKeys whose value Absent means "key not in the dict").            *)
(***************************************************************************)
EXTENDS Integers, Sequences, FiniteSets, TLC

VARIABLES items, settings, ret

vars == <<items, settings, ret>>

----------------------------------------------------------------------------
(* Python values *)

Absent == <<"<absent>">>

DictKeys == {"a", "b"}

NoDict == [k \in DictKeys |-> Absent]

Val(t, s, l, d) == [t |-> t, s |-> s, l |-> l, d |-> d]

Str(s) == Val("str", s, <<>>, NoDict)

Lst(l) == Val("list", <<>>, l, NoDict)

Dct(d) == Val("dict", <<>>, <<>>, d)

Flt(tok) == Val("float", <<tok>>, <<>>, NoDict)

IntV(tok) == Val("int", <<tok>>, <<>>, NoDict)

BoolV(tok) == Val("bool", <<tok>>, <<>>, NoDict)

EnumV(s) == Val("enum", s, <<>>, NoDict)

NoneV == Val("none", <<>>, <<>>, NoDict)

\* the dict of the network interfaces of a system: a sequence of
\* <<name, fields>>, the fields of an interface being a dict of fields
Interfaces(l) == Val("interfaces", <<>>, l, NoDict)

\* the value of an attribute the object does not have (hasattr is False)
NoAttr == Val("noattr", <<>>, <<>>, NoDict)

\* enums.VALUE_INHERITED, the reserved string "<<inherit>>"
INHERIT_TOKEN == <<"<<inherit>>">>

VALUE_INHERITED == Str(INHERIT_TOKEN)

\* the dictionary value that marks a key for removal by dict_annihilate
REMOVAL_MARKER == <<"<<remove>>">>

\* the outcome of a call: a returned value, or a raised exception
Return(v) == [val |-> v, err |-> ""]

Raise(e) == [val |-> NoneV, err |-> e]

----------------------------------------------------------------------------
(* Items *)

Items == {"i1", "i2", "i3"}

NoItem == "none"

Kinds == {"generic", "distro", "profile", "system"}

\* the kinds that declare the enum-typed, inheritable field _virt_type
EnumKinds == {"profile", "system"}

\* the kinds that declare the field _proxy, which backs the property proxy
\* and the properties whose names start with proxy_url_
ProxyKinds == {"profile", "system"}

\* BaseItem.__init__
BaseItem_init(uid) ==
    [_ctime |-> Flt("0.0"), _mtime |-> Flt("0.0"), _uid |-> Str(<<uid>>),
     _name |-> Str(<<>>), _comment |-> Str(<<>>), _owners |-> VALUE_INHERITED]

\* InheritableItem.__init__
InheritableItem_init(is_subobject) ==
    [_parent |-> Str(<<>>), _depth |-> IntV("0"), _children |-> Lst(<<>>),
     _conceptual_parent |-> NoneV, _is_subobject |-> is_subobject]

\* Item.__init__
Item_init ==
    [_kernel_options |-> Dct(NoDict), _kernel_options_post |-> Dct(NoDict),
     _autoinstall_meta |-> Dct(NoDict), _fetchable_files |-> Dct(NoDict),
     _boot_files |-> Dct(NoDict), _template_files |-> Dct(NoDict),
     _last_cached_mtime |-> IntV("0"), _cached_dict |-> Str(<<>>),
     _mgmt_classes |-> Lst(<<>>), _mgmt_parameters |-> Dct(NoDict)]

\* the constructor of a concrete kind: the three __init__ bodies, and the
\* enum field of the kinds that have one
NewItem(kind, uid, is_subobject) ==
    [kind |-> kind,
     _virt_type |-> IF kind \in EnumKinds THEN EnumV(INHERIT_TOKEN) ELSE NoAttr,
     _interfaces |-> IF kind = "system" THEN Interfaces(<<>>) ELSE NoAttr,
     _proxy |-> IF kind \in ProxyKinds THEN VALUE_INHERITED ELSE NoAttr]
    @@ BaseItem_init(uid) @@ InheritableItem_init(is_subobject) @@ Item_init

\* hasattr(self, attribute) for a private attribute
HasField(item, attribute) ==
    /\ attribute \in DOMAIN item
    /\ attribute # "kind"
    /\ item[attribute] # NoAttr

----------------------------------------------------------------------------
(* Settings: an object with named attributes *)

SettingsKeys ==
    {"owners", "default_ownership", "default_default_ownership",
     "mgmt_classes", "default_mgmt_classes",
     "virt_type", "default_virt_type", "kernel_options",
     "proxy", "default_proxy"}

\* hasattr(settings, name)
SettingsHas(st, name) == name \in DOMAIN st /\ st[name] # NoAttr

\* f"default_{settings_name}"
DefaultName(settings_name) ==
    CASE settings_name = "default_ownership" -> "default_default_ownership"
      [] settings_name = "owners" -> "default_owners"
      [] settings_name = "mgmt_classes" -> "default_mgmt_classes"
      [] settings_name = "virt_type" -> "default_virt_type"
      [] settings_name = "proxy" -> "default_proxy"
      [] OTHER -> "default_?"

\* "_" + property_name
Attr(property_name) ==
    CASE property_name = "owners" -> "_owners"
      [] property_name = "mgmt_classes" -> "_mgmt_classes"
      [] property_name = "virt_type" -> "_virt_type"
      [] property_name = "kernel_options" -> "_kernel_options"
      [] property_name = "kernel_options_post" -> "_kernel_options_post"
      [] property_name = "autoinstall_meta" -> "_autoinstall_meta"
      [] property_name = "fetchable_files" -> "_fetchable_files"
      [] property_name = "boot_files" -> "_boot_files"
      [] property_name = "mgmt_parameters" -> "_mgmt_parameters"
      [] property_name = "proxy" -> "_proxy"
      [] OTHER -> "_?"

\* property_name.startswith("proxy_url_")
StartsWithProxyUrl(property_name) ==
    property_name \in {"proxy_url_ext", "proxy_url_int"}

----------------------------------------------------------------------------
(* The lookup service and the parent property *)

\* api.find_items("", name=..., return_list=False): the item of that name, or None
find_items(its, name) ==
    IF \E i \in Items : its[i]._name = name
    THEN CHOOSE i \in Items : its[i]._name = name
    ELSE NoItem

\* InheritableItem.parent (getter) as the base class has it: always None
InheritableItem_parent(its, x) == NoItem

\* the parent property: the base getter for the generic kind; the concrete
\* kinds override it with a lookup of the stored parent name, an empty or
\* dangling name giving None
parent(its, x) ==
    IF its[x].kind = "generic" THEN InheritableItem_parent(its, x)
    ELSE IF its[x]._parent = Str(<<>>) THEN NoItem
    ELSE find_items(its, its[x]._parent)

----------------------------------------------------------------------------
(* Resolution *)

\* the depth of Python's call stack, scaled down: a walk that needs more
\* frames than this ends in RecursionError
RecursionLimit == 3

ScalarProps == {"owners", "mgmt_classes"}

EnumProps == {"virt_type"}

DictProps ==
    {"kernel_options", "kernel_options_post", "autoinstall_meta",
     "fetchable_files", "boot_files", "mgmt_parameters"}

\* whether the class of a kind declares the property (hasattr, before the
\* getter runs)
ClassHasProperty(kind, property_name) ==
    \/ property_name \in ScalarProps \cup DictProps
    \/ property_name = "proxy" /\ kind \in ProxyKinds
    \/ property_name \in EnumProps /\ kind \in EnumKinds

\* enum_type.to_enum(value): a plain string becomes the member of that value
to_enum(v) == IF v.t = "str" THEN EnumV(v.s) ELSE v

\* merged_dict.update(other)
DictUpdate(merged, other) ==
    [k \in DictKeys |-> IF other[k] # Absent THEN other[k] ELSE merged[k]]

\* utils.dict_annihilate: every entry holding the removal marker is deleted
dict_annihilate(merged) ==
    [k \in DictKeys |-> IF merged[k] = REMOVAL_MARKER THEN Absent ELSE merged[k]]

\* BaseItem._resolve without the special settings key of owners
BaseItem_resolve_OwnersKey(item, st, property_name0) ==
    LET settings_name == property_name0
        property_name == IF StartsWithProxyUrl(property_name0) THEN "proxy"
                         ELSE property_name0
        attribute == Attr(property_name)
    IN  IF ~HasField(item, attribute) THEN Raise("AttributeError")
        ELSE LET attribute_value == item[attribute]
             IN  IF attribute_value = VALUE_INHERITED
                 THEN IF SettingsHas(st, settings_name)
                      THEN Return(st[settings_name])
                      ELSE IF SettingsHas(st, DefaultName(settings_name))
                      THEN Return(st[DefaultName(settings_name)])
                      ELSE Return(attribute_value)
                 ELSE Return(attribute_value)

\* BaseItem._resolve; the exception built at the end is never raised, so the
\* stored value is returned
BaseItem_resolve(item, st, property_name0) ==
    LET settings_name0 == property_name0
        property_name == IF StartsWithProxyUrl(property_name0) THEN "proxy"
                         ELSE property_name0
        settings_name == IF property_name = "owners" THEN "default_ownership"
                         ELSE settings_name0
        attribute == Attr(property_name)
    IN  IF ~HasField(item, attribute) THEN Raise("AttributeError")
        ELSE LET attribute_value == item[attribute]
             IN  IF attribute_value = VALUE_INHERITED
                 THEN IF SettingsHas(st, settings_name)
                      THEN Return(st[settings_name])
                      ELSE IF SettingsHas(st, DefaultName(settings_name))
                      THEN Return(st[DefaultName(settings_name)])
                      ELSE Return(attribute_value)
                 ELSE Return(attribute_value)

\* BaseItem._resolve_enum; as above, the final exception is never raised
BaseItem_resolve_enum(item, st, property_name) ==
    LET settings_name == property_name
        attribute == Attr(property_name)
    IN  IF ~HasField(item, attribute) THEN Raise("AttributeError")
        ELSE LET attribute_value == item[attribute]
             IN  IF attribute_value.t = "enum" /\ attribute_value.s = INHERIT_TOKEN
                 THEN IF SettingsHas(st, settings_name)
                      THEN Return(to_enum(st[settings_name]))
                      ELSE IF SettingsHas(st, DefaultName(settings_name))
                      THEN Return(to_enum(st[DefaultName(settings_name)]))
                      ELSE Return(attribute_value)
                 ELSE Return(attribute_value)

RECURSIVE InheritableItem_resolve(_, _, _, _, _)
RECURSIVE InheritableItem_resolve_enum(_, _, _, _, _)
RECURSIVE InheritableItem_resolve_dict(_, _, _, _, _)
RECURSIVE getattr(_, _, _, _, _)

\* InheritableItem._resolve with the test of the stored value left out: the
\* parent is asked whenever there is one
InheritableItem_resolve_ParentFirst(its, st, x, property_name0, fuel) ==
    IF fuel = 0 THEN Raise("RecursionError")
    ELSE
    LET property_name == IF StartsWithProxyUrl(property_name0) THEN "proxy"
                         ELSE property_name0
        attribute == Attr(property_name)
    IN  IF ~HasField(its[x], attribute) THEN Raise("AttributeError")
        ELSE LET p == parent(its, x)
                 h == getattr(its, st, p, property_name, fuel - 1)
             IN  IF p # NoItem /\ h.err # "AttributeError"
                 THEN h
                 ELSE BaseItem_resolve(its[x], st, property_name)

\* InheritableItem._resolve. h is the getter of the parent's property, which
\* hasattr runs first: an AttributeError makes hasattr False, any other
\* exception leaves the call
InheritableItem_resolve(its, st, x, property_name0, fuel) ==
    IF fuel = 0 THEN Raise("RecursionError")
    ELSE
    LET property_name == IF StartsWithProxyUrl(property_name0) THEN "proxy"
                         ELSE property_name0
        attribute == Attr(property_name)
    IN  IF ~HasField(its[x], attribute) THEN Raise("AttributeError")
        ELSE LET attribute_value == its[x][attribute]
                 p == parent(its, x)
                 h == getattr(its, st, p, property_name, fuel - 1)
             IN  IF /\ attribute_value = VALUE_INHERITED
                    /\ p # NoItem
                    /\ h.err # "AttributeError"
                 THEN h
                 ELSE BaseItem_resolve(its[x], st, property_name)

\* InheritableItem._resolve_enum
InheritableItem_resolve_enum(its, st, x, property_name, fuel) ==
    IF fuel = 0 THEN Raise("RecursionError")
    ELSE
    LET attribute == Attr(property_name)
    IN  IF ~HasField(its[x], attribute) THEN Raise("AttributeError")
        ELSE LET attribute_value == its[x][attribute]
                 p == parent(its, x)
                 h == getattr(its, st, p, property_name, fuel - 1)
             IN  IF /\ attribute_value.t = "enum"
                    /\ attribute_value.s = INHERIT_TOKEN
                    /\ p # NoItem
                    /\ h.err # "AttributeError"
                 THEN h
                 ELSE BaseItem_resolve_enum(its[x], st, property_name)

\* InheritableItem._resolve_dict with the two updates in the other order, so
\* that the fallback overwrites the item's own entries
InheritableItem_resolve_dict_FallbackWins(its, st, x, property_name, fuel) ==
    IF fuel = 0 THEN Raise("RecursionError")
    ELSE
    LET attribute == Attr(property_name)
    IN  IF ~HasField(its[x], attribute) THEN Raise("AttributeError")
        ELSE LET attribute_value == its[x][attribute]
                 p == parent(its, x)
                 h == getattr(its, st, p, property_name, fuel - 1)
                 fromParent == p # NoItem /\ h.err # "AttributeError"
                 merged1 == IF attribute_value # VALUE_INHERITED
                            THEN DictUpdate(NoDict, attribute_value.d)
                            ELSE NoDict
                 merged2 == IF fromParent THEN DictUpdate(merged1, h.val.d)
                            ELSE IF SettingsHas(st, property_name)
                            THEN DictUpdate(merged1, st[property_name].d)
                            ELSE merged1
             IN  IF fromParent /\ h.err # "" THEN h
                 ELSE Return(Dct(dict_annihilate(merged2)))

\* InheritableItem._resolve_dict without the call of dict_annihilate
InheritableItem_resolve_dict_NoAnnihilate(its, st, x, property_name, fuel) ==
    IF fuel = 0 THEN Raise("RecursionError")
    ELSE
    LET attribute == Attr(property_name)
    IN  IF ~HasField(its[x], attribute) THEN Raise("AttributeError")
        ELSE LET attribute_value == its[x][attribute]
                 p == parent(its, x)
                 h == getattr(its, st, p, property_name, fuel - 1)
                 fromParent == p # NoItem /\ h.err # "AttributeError"
                 merged1 == IF fromParent THEN DictUpdate(NoDict, h.val.d)
                            ELSE IF SettingsHas(st, property_name)
                            THEN DictUpdate(NoDict, st[property_name].d)
                            ELSE NoDict
                 merged2 == IF attribute_value # VALUE_INHERITED
                            THEN DictUpdate(merged1, attribute_value.d)
                            ELSE merged1
             IN  IF fromParent /\ h.err # "" THEN h
                 ELSE Return(Dct(merged2))

\* InheritableItem._resolve_dict
InheritableItem_resolve_dict(its, st, x, property_name, fuel) ==
    IF fuel = 0 THEN Raise("RecursionError")
    ELSE
    LET attribute == Attr(property_name)
    IN  IF ~HasField(its[x], attribute) THEN Raise("AttributeError")
        ELSE LET attribute_value == its[x][attribute]
                 p == parent(its, x)
                 h == getattr(its, st, p, property_name, fuel - 1)
                 fromParent == p # NoItem /\ h.err # "AttributeError"
                 merged1 == IF fromParent THEN DictUpdate(NoDict, h.val.d)
                            ELSE IF SettingsHas(st, property_name)
                            THEN DictUpdate(NoDict, st[property_name].d)
                            ELSE NoDict
                 merged2 == IF attribute_value # VALUE_INHERITED
                            THEN DictUpdate(merged1, attribute_value.d)
                            ELSE merged1
             IN  IF fromParent /\ h.err # "" THEN h
                 ELSE Return(Dct(dict_annihilate(merged2)))

\* getattr(item, property_name): the getter of a property of the item's class
getattr(its, st, y, property_name, fuel) ==
    IF ~ClassHasProperty(its[y].kind, property_name) THEN Raise("AttributeError")
    ELSE IF property_name \in EnumProps
    THEN InheritableItem_resolve_enum(its, st, y, property_name, fuel)
    ELSE IF property_name \in DictProps
    THEN InheritableItem_resolve_dict(its, st, y, property_name, fuel)
    ELSE InheritableItem_resolve(its, st, y, property_name, fuel)

----------------------------------------------------------------------------
(* Input converters and setters. A setter gives the item it leaves behind  *)
(* and the exception it raised ("" for none).                              *)

Ok(item) == [item |-> item, err |-> ""]

Failed(item, e) == [item |-> item, err |-> e]

RECURSIVE SplitWords(_, _, _)
\* the words of a string of characters, split at blanks
SplitWords(s, cur, acc) ==
    IF s = <<>> THEN (IF cur = <<>> THEN acc ELSE Append(acc, cur))
    ELSE IF Head(s) = " "
    THEN SplitWords(Tail(s), <<>>, IF cur = <<>> THEN acc ELSE Append(acc, cur))
    ELSE SplitWords(Tail(s), Append(cur, Head(s)), acc)

\* api.input_string_or_list: the sentinel and a list pass through, any other
\* string is split into its words
input_string_or_list(options) ==
    IF options = VALUE_INHERITED THEN VALUE_INHERITED
    ELSE IF options.t = "list" THEN options
    ELSE Lst(SplitWords(options.s, <<>>, <<>>))

\* BaseItem.owners (setter)
set_owners(item, owners) ==
    IF owners.t \notin {"str", "list"} THEN Failed(item, "TypeError")
    ELSE Ok([item EXCEPT !._owners = input_string_or_list(owners)])

\* Item.mgmt_classes (setter)
set_mgmt_classes(item, mgmt_classes) ==
    IF mgmt_classes.t \notin {"str", "list"} THEN Failed(item, "TypeError")
    ELSE Ok([item EXCEPT !._mgmt_classes = input_string_or_list(mgmt_classes)])

\* InheritableItem.parent (setter): the base setter has an empty body; the
\* concrete kinds override it and store the name
set_parent(item, parent_name) ==
    IF item.kind = "generic" THEN Ok(item)
    ELSE Ok([item EXCEPT !._parent = parent_name])

\* the dict a word of the form k=v adds its entry to; a word of another
\* form, or with a key outside DictKeys, is malformed
WordIsPair(w) == Len(w) = 3 /\ w[2] = "=" /\ w[1] \in DictKeys

RECURSIVE PairsToDict(_, _)
PairsToDict(words, d) ==
    IF words = <<>> THEN d
    ELSE PairsToDict(Tail(words), [d EXCEPT ![Head(words)[1]] = <<Head(words)[3]>>])

\* api.input_string_or_dict: the sentinel and a dict pass through, a string
\* of k=v words is parsed, a malformed string is a ValueError and any other
\* type a TypeError
input_string_or_dict(options) ==
    IF options = VALUE_INHERITED THEN Return(VALUE_INHERITED)
    ELSE IF options.t = "dict" THEN Return(options)
    ELSE IF options.t = "str"
    THEN LET words == SplitWords(options.s, <<>>, <<>>)
         IN  IF \A i \in 1..Len(words) : WordIsPair(words[i])
             THEN Return(Dct(PairsToDict(words, NoDict)))
             ELSE Raise("ValueError")
    ELSE Raise("TypeError")

\* Item.kernel_options (setter)
set_kernel_options(item, options) ==
    LET r == input_string_or_dict(options)
    IN  IF r.err # "" THEN Failed(item, r.err)
        ELSE Ok([item EXCEPT !._kernel_options = r.val])

----------------------------------------------------------------------------
(* What a behaviour records of the last call: the operation, the item and  *)
(* the property it was called with, and its outcome. In the behaviours of  *)
(* a tree of items only reads are recorded, and a write clears the record. *)

\* a call with an argument (a value) or with a dictionary given or returned
\* (a sequence of <<key, value>> in the order of the dictionary)
CallWith(op, x, prop, arg, dict, out) ==
    [op |-> op, item |-> x, prop |-> prop, arg |-> arg, dict |-> dict, out |-> out]

Call(op, x, prop, out) == CallWith(op, x, prop, NoneV, <<>>, out)

NoCall == Call("init", NoItem, "", Return(NoneV))

\* the names the items of a tree carry in their collection
TreeName(x) ==
    CASE x = "i1" -> Str(<<"a">>)
      [] x = "i2" -> Str(<<"b">>)
      [] x = "i3" -> Str(<<"c">>)

\* a name that no item carries
DanglingName == Str(<<"z">>)

\* the names a parent reference is set to: none, or an item of the tree
ParentNames == {Str(<<>>)} \cup {TreeName(x) : x \in Items}

\* an item as its constructor and the name setter leave it
Named(kind, x) == [NewItem(kind, x, BoolV("False")) EXCEPT !._name = TreeName(x)]

\* the kinds of the items of a tree: a distro and two profiles
TreeKind(x) ==
    CASE x = "i1" -> "distro"
      [] x = "i2" -> "profile"
      [] x = "i3" -> "profile"

NoSettings == [k \in SettingsKeys |-> NoAttr]

\* a settings object with default_ownership, default_mgmt_classes,
\* default_virt_type, kernel_options and proxy
SettingsA ==
    [NoSettings EXCEPT !["default_ownership"] = Lst(<<<<"r">>>>),
                       !["default_mgmt_classes"] = Lst(<<<<"t">>>>),
                       !["default_virt_type"] = Str(<<"kvm">>),
                       !["kernel_options"] = Dct([a |-> <<"0">>, b |-> Absent]),
                       !["proxy"] = Str(<<"pa">>)]

\* a settings object with the attributes owners, virt_type and
\* default_proxy and no other
SettingsB ==
    [NoSettings EXCEPT !["owners"] = Lst(<<<<"o">>>>),
                       !["virt_type"] = Str(<<"xen">>),
                       !["default_proxy"] = Str(<<"pb">>)]

\* the items of a tree, constructed and named
InitItems == items = [x \in Items |-> Named(TreeKind(x), x)]

InitScalar ==
    /\ InitItems
    /\ settings \in {SettingsA, SettingsB}
    /\ ret = NoCall

\* x.parent = parent_name
SetParent ==
    \E x \in Items, n \in ParentNames :
        /\ items' = [items EXCEPT ![x] = set_parent(items[x], n).item]
        /\ ret' = NoCall
        /\ UNCHANGED settings

OwnersInputs == {VALUE_INHERITED, Lst(<<<<"u">>>>)}

\* x.owners = owners
SetOwners ==
    \E x \in Items, v \in OwnersInputs :
        /\ items' = [items EXCEPT ![x] = set_owners(items[x], v).item]
        /\ ret' = NoCall
        /\ UNCHANGED settings

MgmtClassesInputs == {VALUE_INHERITED, Lst(<<>>)}

\* x.mgmt_classes = mgmt_classes
SetMgmtClasses ==
    \E x \in Items, v \in MgmtClassesInputs :
        /\ items' = [items EXCEPT ![x] = set_mgmt_classes(items[x], v).item]
        /\ ret' = NoCall
        /\ UNCHANGED settings

\* reading x.owners or x.mgmt_classes, that is self._resolve(property_name)
ResolveScalar ==
    \E x \in Items, property_name \in ScalarProps :
        /\ ret' = Call("resolve", x, property_name,
                       InheritableItem_resolve(items, settings, x, property_name,
                                               RecursionLimit))
        /\ UNCHANGED <<items, settings>>

NextScalar == SetParent \/ SetOwners \/ SetMgmtClasses \/ ResolveScalar

SpecScalar == InitScalar /\ [][NextScalar]_vars

----------------------------------------------------------------------------
(* Properties of scalar resolution *)

RECURSIVE ChainFrom(_, _, _)
\* the item and its ancestors in order, followed for at most n parent steps
ChainFrom(its, x, n) ==
    IF x = NoItem THEN <<>>
    ELSE IF n = 0 THEN <<x>>
    ELSE <<x>> \o ChainFrom(its, parent(its, x), n - 1)

\* the parent chain of x is finite: it ends within as many steps as there
\* are items
FiniteChain(its, x) == Len(ChainFrom(its, x, Cardinality(Items))) <= Cardinality(Items)

\* the stored value of the property the last read was about
StoredOfRet == items[ret.item][Attr(ret.prop)]

\* C1: a read of a scalar property of an item whose stored value is
\* concrete returns exactly the stored value, whatever its parent and the
\* settings hold
C1_OwnValueWins ==
    (ret.op = "resolve" /\ StoredOfRet # VALUE_INHERITED)
        => ret.out = Return(StoredOfRet)

\* an item with a concrete value was read, and its parent resolves the same
\* property to another value
C1_Witness ==
    /\ ret.op = "resolve"
    /\ StoredOfRet # VALUE_INHERITED
    /\ parent(items, ret.item) # NoItem
    /\ LET y == InheritableItem_resolve(items, settings, parent(items, ret.item),
                                        ret.prop, RecursionLimit)
       IN  y.err = "" /\ y.val # StoredOfRet /\ y.val # VALUE_INHERITED
    /\ ret.out = Return(StoredOfRet)

\* C2: at the bottom of a finite parent chain, when the settings have the
\* attribute p or default_p, a read of the scalar property p returns a value
\* that is not the sentinel
C2_NeverLeaksSentinel ==
    (/\ ret.op = "resolve"
     /\ FiniteChain(items, ret.item)
     /\ \/ SettingsHas(settings, ret.prop)
        \/ SettingsHas(settings, DefaultName(ret.prop)))
        => (ret.out.err = "" /\ ret.out.val # VALUE_INHERITED)

\* the settings have none of the attributes that could end the chain of p
NoTerminus(st, p) ==
    /\ ~SettingsHas(st, p)
    /\ ~SettingsHas(st, DefaultName(p))
    /\ p = "owners" =>
        /\ ~SettingsHas(st, "default_ownership")
        /\ ~SettingsHas(st, "default_default_ownership")

\* C3: a read of a property whose stored value is the sentinel, with no
\* parent that has the property and no settings attribute to end the chain,
\* raises an error and returns nothing
C3_MissingTerminusRaises ==
    (/\ ret.op = "resolve"
     /\ StoredOfRet = VALUE_INHERITED
     /\ \/ parent(items, ret.item) = NoItem
        \/ ~ClassHasProperty(items[parent(items, ret.item)].kind, ret.prop)
     /\ NoTerminus(settings, ret.prop))
        => ret.out.err # ""

----------------------------------------------------------------------------
(* Mapping properties *)

InitDict == InitScalar

KernelOptionsInputs ==
    {VALUE_INHERITED,
     Dct(NoDict),
     Dct([a |-> <<"1">>, b |-> <<"2">>]),
     Dct([a |-> Absent, b |-> REMOVAL_MARKER]),
     Dct([a |-> <<"3">>, b |-> Absent])}

\* x.kernel_options = options
SetKernelOptions ==
    \E x \in Items, v \in KernelOptionsInputs :
        /\ items' = [items EXCEPT ![x] = set_kernel_options(items[x], v).item]
        /\ ret' = NoCall
        /\ UNCHANGED settings

\* reading x.kernel_options, that is self._resolve_dict("kernel_options")
ResolveDict ==
    \E x \in Items :
        /\ ret' = Call("resolve_dict", x, "kernel_options",
                       InheritableItem_resolve_dict(items, settings, x,
                                                    "kernel_options", RecursionLimit))
        /\ UNCHANGED <<items, settings>>

NextDict == SetParent \/ SetKernelOptions \/ ResolveDict

SpecDict == InitDict /\ [][NextDict]_vars

\* the mapping the item of the last read falls back to: its parent's
\* resolved mapping if it has a parent with the property, else the settings'
\* mapping if there is one, else the empty mapping
FallbackOfRet ==
    LET p == parent(items, ret.item)
    IN  IF p # NoItem /\ ClassHasProperty(items[p].kind, ret.prop)
        THEN InheritableItem_resolve_dict(items, settings, p, ret.prop,
                                          RecursionLimit).val.d
        ELSE IF SettingsHas(settings, ret.prop) THEN settings[ret.prop].d
        ELSE NoDict

\* the fallback overlaid key by key with the item's own mapping
OverlayOfRet ==
    [k \in DictKeys |->
        IF StoredOfRet # VALUE_INHERITED /\ StoredOfRet.d[k] # Absent
        THEN StoredOfRet.d[k]
        ELSE FallbackOfRet[k]]

\* C4, as stated: a read of a mapping property returns the fallback mapping
\* overlaid key by key with the item's own mapping
C4_MergeLawOriginal ==
    (ret.op = "resolve_dict" /\ ret.out.err = "")
        => ret.out.val = Dct(OverlayOfRet)

\* C4, amended: a read of a mapping property returns the fallback mapping
\* overlaid key by key with the item's own mapping, without the keys whose
\* value in that overlay is the removal marker; with the sentinel stored and
\* a parent that has the property it returns the parent's resolved mapping
C4_MergeLaw ==
    (ret.op = "resolve_dict" /\ ret.out.err = "")
        => /\ ret.out.val.t = "dict"
           /\ \A k \in DictKeys :
                ret.out.val.d[k] = IF OverlayOfRet[k] = REMOVAL_MARKER THEN Absent
                                   ELSE OverlayOfRet[k]
           /\ (/\ StoredOfRet = VALUE_INHERITED
               /\ parent(items, ret.item) # NoItem)
                 => ret.out.val.d = FallbackOfRet

\* an item that overrides one key of its parent's two-key mapping was read:
\* parent {a: 1, b: 2}, own {a: 3}, result {a: 3, b: 2}
C4_Witness ==
    /\ ret.op = "resolve_dict"
    /\ ret.out.err = ""
    /\ parent(items, ret.item) # NoItem
    /\ FallbackOfRet = [a |-> <<"1">>, b |-> <<"2">>]
    /\ StoredOfRet = Dct([a |-> <<"3">>, b |-> Absent])
    /\ ret.out.val = Dct([a |-> <<"3">>, b |-> <<"2">>])

\* C5: when the item's own mapping marks a key for removal that its
\* parent's resolved mapping holds, the returned mapping has no entry for
\* that key and keeps every other inherited key; and no returned mapping
\* holds the removal marker
C5_Annihilation ==
    (ret.op = "resolve_dict" /\ ret.out.err = "")
        => /\ \A k \in DictKeys : ret.out.val.d[k] # REMOVAL_MARKER
           /\ \A b \in DictKeys :
                (/\ StoredOfRet # VALUE_INHERITED
                 /\ StoredOfRet.d[b] = REMOVAL_MARKER
                 /\ parent(items, ret.item) # NoItem
                 /\ FallbackOfRet[b] # Absent)
                  => /\ ret.out.val.d[b] = Absent
                     /\ \A k \in DictKeys \ {b} :
                          StoredOfRet.d[k] = Absent
                            => ret.out.val.d[k] = FallbackOfRet[k]

\* parent {a: 1, b: 2}, own {b: removal marker}, result {a: 1}
C5_Witness ==
    /\ ret.op = "resolve_dict"
    /\ ret.out.err = ""
    /\ parent(items, ret.item) # NoItem
    /\ FallbackOfRet = [a |-> <<"1">>, b |-> <<"2">>]
    /\ StoredOfRet = Dct([a |-> Absent, b |-> REMOVAL_MARKER])
    /\ ret.out.val = Dct([a |-> <<"1">>, b |-> Absent])

----------------------------------------------------------------------------
(* Tree operations *)

\* InheritableItem.children (getter) as the base class has it: always []
InheritableItem_children(its, x) == <<>>

\* the children property: the base getter for the generic kind; the
\* concrete kinds override it with their list of child names
children(its, x) ==
    IF its[x].kind = "generic" THEN InheritableItem_children(its, x)
    ELSE its[x]._children.l

\* InheritableItem.children (setter): the base setter logs a warning and
\* stores nothing; the concrete kinds replace their list
set_children(item, value) ==
    IF item.kind = "generic" THEN Ok(item)
    ELSE Ok([item EXCEPT !._children = value])

RECURSIVE descendants(_, _, _)
RECURSIVE descendants_loop(_, _, _, _)

\* the body of the for loop of InheritableItem.descendants: the lookup of a
\* kid that does not exist gives None, whose attribute descendants is an
\* AttributeError; the kid itself is never added to results
descendants_loop(its, kids, results, fuel) ==
    IF kids = <<>> THEN Return(Lst(results))
    ELSE LET kid_item == find_items(its, Str(Head(kids)))
         IN  IF kid_item = NoItem THEN Raise("AttributeError")
             ELSE LET grandkids == descendants(its, kid_item, fuel - 1)
                  IN  IF grandkids.err # "" THEN grandkids
                      ELSE descendants_loop(its, Tail(kids),
                                            results \o grandkids.val.l, fuel)

\* InheritableItem.descendants; the result lists the names of the items
descendants(its, x, fuel) ==
    IF fuel = 0 THEN Raise("RecursionError")
    ELSE descendants_loop(its, children(its, x), <<>>, fuel)

RECURSIVE conceptual_parent_loop(_, _, _, _)
\* the while loop of get_conceptual_parent: the first item on the parent
\* chain whose type is not mtype, None at the end of the chain; a loop that
\* has made as many steps as there are items is on a cycle and never ends
conceptual_parent_loop(its, mtype, p, steps) ==
    IF p = NoItem THEN Return(NoneV)
    ELSE IF mtype # its[p].kind THEN Return(Str(<<p>>))
    ELSE IF steps = 0 THEN Raise("NonTermination")
    ELSE conceptual_parent_loop(its, mtype, parent(its, p), steps - 1)

\* the loop with the step to the next parent left out: only the parent
\* itself is looked at
conceptual_parent_FirstOnly(its, x) ==
    LET p == parent(its, x)
    IN  IF p = NoItem THEN Return(NoneV)
        ELSE IF its[x].kind # its[p].kind THEN Return(Str(<<p>>))
        ELSE Return(NoneV)

\* InheritableItem.get_conceptual_parent: what it returns (an item is given
\* by its identity)
get_conceptual_parent(its, x) ==
    conceptual_parent_loop(its, its[x].kind, parent(its, x), Cardinality(Items))

\* self.api.settings() as an element of the list grab_tree returns
SettingsObject == <<"<settings>">>

RECURSIVE grab_tree_loop(_, _, _, _)
\* the while loop of grab_tree and the append of the settings after it; a
\* loop that has made as many steps as there are items is on a cycle and
\* never ends
grab_tree_loop(its, p, results, steps) ==
    IF p = NoItem THEN Return(Lst(Append(results, SettingsObject)))
    ELSE IF steps = 0 THEN Raise("NonTermination")
    ELSE grab_tree_loop(its, parent(its, p), Append(results, <<p>>), steps - 1)

\* Item.grab_tree with the loop left after the first parent
grab_tree_ParentOnly(its, x) ==
    IF parent(its, x) = NoItem THEN Return(Lst(<< <<x>>, SettingsObject >>))
    ELSE Return(Lst(<< <<x>>, <<parent(its, x)>>, SettingsObject >>))

\* Item.grab_tree: the list it returns (an item is given by its identity)
grab_tree(its, x) ==
    grab_tree_loop(its, parent(its, x), << <<x>> >>, Cardinality(Items))

SortedNameLists ==
    { <<>>, <<<<"a">>>>, <<<<"b">>>>, <<<<"c">>>>, <<<<"z">>>>,
      <<<<"a">>, <<"b">>>>, <<<<"a">>, <<"c">>>>, <<<<"b">>, <<"c">>>>,
      <<<<"b">>, <<"z">>>>, <<<<"a">>, <<"b">>, <<"c">>>> }

InitChildren ==
    /\ InitItems
    /\ settings = SettingsA
    /\ ret = NoCall

\* x.children = value
SetChildren ==
    \E x \in Items, l \in SortedNameLists :
        /\ items' = [items EXCEPT ![x] = set_children(items[x], Lst(l)).item]
        /\ ret' = NoCall
        /\ UNCHANGED settings

\* reading x.descendants
Descendants ==
    \E x \in Items :
        /\ ret' = Call("descendants", x, "", descendants(items, x, RecursionLimit))
        /\ UNCHANGED <<items, settings>>

NextChildren == SetChildren \/ Descendants

SpecChildren == InitChildren /\ [][NextChildren]_vars

\* x.parent = a name that no item carries
SetDanglingParent ==
    \E x \in Items :
        /\ items' = [items EXCEPT ![x] = set_parent(items[x], DanglingName).item]
        /\ ret' = NoCall
        /\ UNCHANGED settings

\* x.get_conceptual_parent(): the item found is also stored in the cache
\* _conceptual_parent of x
GetConceptualParent ==
    \E x \in Items :
        LET r == get_conceptual_parent(items, x)
        IN  /\ ret' = Call("get_conceptual_parent", x, "", r)
            /\ items' = IF r.err = "" /\ r.val # NoneV
                        THEN [items EXCEPT ![x]._conceptual_parent = r.val]
                        ELSE items
            /\ UNCHANGED settings

\* x.grab_tree()
GrabTree ==
    \E x \in Items :
        /\ ret' = Call("grab_tree", x, "", grab_tree(items, x))
        /\ UNCHANGED <<items, settings>>

NextTree == SetParent \/ SetDanglingParent \/ GetConceptualParent \/ GrabTree

SpecTree == InitChildren /\ [][NextTree]_vars

----------------------------------------------------------------------------
(* Properties of the tree operations *)

RECURSIVE ReachableBy(_, _, _)
\* the items reached from the items of seen by following the names of
\* children, in at most n rounds
ReachableBy(its, seen, n) ==
    IF n = 0 THEN seen
    ELSE ReachableBy(its,
            seen \cup { y \in Items : \E z \in seen : \E i \in 1..Len(children(its, z)) :
                            its[y]._name = Str(children(its, z)[i]) },
            n - 1)

\* the items below x: its children, their children and so on
Below(its, x) ==
    LET kids == { y \in Items : \E i \in 1..Len(children(its, x)) :
                        its[y]._name = Str(children(its, x)[i]) }
    IN  ReachableBy(its, kids, Cardinality(Items))

\* every child name of x and of the items below x is the name of an item
NoDanglingChild(its, x) ==
    \A z \in {x} \cup Below(its, x) : \A i \in 1..Len(children(its, z)) :
        find_items(its, Str(children(its, z)[i])) # NoItem

\* C7: for an item whose children, followed downwards, form a finite tree
\* of existing items, descendants returns every item below it, each once,
\* and not the item itself
C7_DescendantsComplete ==
    (/\ ret.op = "descendants"
     /\ NoDanglingChild(items, ret.item)
     /\ \A z \in {ret.item} \cup Below(items, ret.item) : z \notin Below(items, z))
        => /\ ret.out.err = ""
           /\ { Str(ret.out.val.l[i]) : i \in 1..Len(ret.out.val.l) }
                = { items[y]._name : y \in Below(items, ret.item) }
           /\ Len(ret.out.val.l) = Cardinality(Below(items, ret.item))

\* the item a returned identity stands for
ItemOf(v) == v.s[1]

\* C8: on a finite parent chain get_conceptual_parent returns the nearest
\* ancestor whose kind differs from the item's kind, all ancestors before
\* it having the item's kind, and returns None exactly when every ancestor
\* has the item's kind or there is no parent
C8_ConceptualParent ==
    (ret.op = "get_conceptual_parent" /\ FiniteChain(items, ret.item))
        => LET chain == ChainFrom(items, ret.item, Cardinality(Items))
               mtype == items[ret.item].kind
           IN  /\ ret.out.err = ""
               /\ ret.out.val = NoneV
                    <=> \A i \in 2..Len(chain) : items[chain[i]].kind = mtype
               /\ ret.out.val # NoneV
                    => \E i \in 2..Len(chain) :
                          /\ chain[i] = ItemOf(ret.out.val)
                          /\ items[chain[i]].kind # mtype
                          /\ \A j \in 2..(i - 1) : items[chain[j]].kind = mtype

\* a profile whose parent is a profile whose parent is a distro was asked,
\* and the distro was returned
C8_Witness ==
    /\ ret.op = "get_conceptual_parent"
    /\ items[ret.item].kind = "profile"
    /\ parent(items, ret.item) # NoItem
    /\ items[parent(items, ret.item)].kind = "profile"
    /\ parent(items, parent(items, ret.item)) # NoItem
    /\ items[parent(items, parent(items, ret.item))].kind = "distro"
    /\ ret.out = Return(Str(<<parent(items, parent(items, ret.item))>>))

----------------------------------------------------------------------------
(* The identity fields and their setters *)

\* the characters of the model's alphabet that RE_OBJECT_NAME allows
NameChars ==
    {"a", "b", "c", "d", "e", "m", "n", "r", "s", "v", "w", "z", "B", "E", "W",
     "0", "1", "_", "-", ".", ":"}

\* RE_OBJECT_NAME.match(name): r"[a-zA-Z0-9_\-.:]*$" matched from the start;
\* $ matches at the end and also before a newline that ends the string
RE_OBJECT_NAME_match(name) ==
    \A i \in 1..Len(name) :
        \/ name[i] \in NameChars
        \/ i = Len(name) /\ name[i] = "\n"

\* BaseItem.uid (setter)
set_uid(item, uid) == Ok([item EXCEPT !._uid = uid])

\* the setter of ctime writing the modification time as well
set_ctime_WritesMtime(item, ctime) ==
    IF ctime.t # "float" THEN Failed(item, "TypeError")
    ELSE Ok([item EXCEPT !._ctime = ctime, !._mtime = ctime])

\* BaseItem.ctime (setter)
set_ctime(item, ctime) ==
    IF ctime.t # "float" THEN Failed(item, "TypeError")
    ELSE Ok([item EXCEPT !._ctime = ctime])

\* BaseItem.mtime (setter)
set_mtime(item, mtime) ==
    IF mtime.t # "float" THEN Failed(item, "TypeError")
    ELSE Ok([item EXCEPT !._mtime = mtime])

\* BaseItem.name (setter)
set_name(item, name) ==
    IF name.t # "str" THEN Failed(item, "TypeError")
    ELSE IF ~RE_OBJECT_NAME_match(name.s) THEN Failed(item, "ValueError")
    ELSE Ok([item EXCEPT !._name = name])

\* BaseItem.comment (setter) storing the comment as the uid too
set_comment_WritesUid(item, comment) ==
    Ok([item EXCEPT !._comment = comment, !._uid = comment])

\* BaseItem.comment (setter)
set_comment(item, comment) == Ok([item EXCEPT !._comment = comment])

\* InheritableItem.is_subobject (setter)
set_is_subobject(item, value) ==
    IF value.t # "bool" THEN Failed(item, "TypeError")
    ELSE Ok([item EXCEPT !._is_subobject = value])

\* InheritableItem.depth (setter); a bool is an int to isinstance
set_depth(item, depth) ==
    IF depth.t \notin {"int", "bool"} THEN Failed(item, "TypeError")
    ELSE Ok([item EXCEPT !._depth = depth])

\* the setters of kernel_options_post, autoinstall_meta, template_files,
\* boot_files and fetchable_files, which have the body of the setter of
\* kernel_options
set_dict_field(item, attribute, options) ==
    LET r == input_string_or_dict(options)
    IN  IF r.err # "" THEN Failed(item, r.err)
        ELSE Ok([item EXCEPT ![attribute] = r.val])

\* the virt_type setter of the kinds that have the field: the value is
\* converted to the member of the enum
set_virt_type(item, virt_type) == Ok([item EXCEPT !._virt_type = to_enum(virt_type)])

\* the proxy setter of the kinds that have the field
set_proxy(item, proxy) ==
    IF proxy.t # "str" THEN Failed(item, "TypeError")
    ELSE Ok([item EXCEPT !._proxy = proxy])

\* Item.mgmt_parameters (setter); the strings given to it are YAML scalars,
\* which yaml.safe_load does not turn into a dict
set_mgmt_parameters(item, mgmt_parameters) ==
    IF mgmt_parameters.t \notin {"str", "dict"} THEN Failed(item, "TypeError")
    ELSE IF mgmt_parameters = VALUE_INHERITED
    THEN Ok([item EXCEPT !._mgmt_parameters = VALUE_INHERITED])
    ELSE IF mgmt_parameters = Str(<<>>)
    THEN Ok([item EXCEPT !._mgmt_parameters = Dct(NoDict)])
    ELSE IF mgmt_parameters.t = "str" THEN Failed(item, "TypeError")
    ELSE Ok([item EXCEPT !._mgmt_parameters = mgmt_parameters])

----------------------------------------------------------------------------
(* Serialisation. A Python dict of fields is a sequence of <<key, value>>  *)
(* in the order of the dict.                                               *)

\* the private attributes in the order the constructors create them, each
\* with the key to_dict gives it (key[1:].lower())
Fields ==
    << <<"_ctime", "ctime">>, <<"_mtime", "mtime">>, <<"_uid", "uid">>,
       <<"_name", "name">>, <<"_comment", "comment">>, <<"_owners", "owners">>,
       <<"_parent", "parent">>, <<"_depth", "depth">>, <<"_children", "children">>,
       <<"_conceptual_parent", "conceptual_parent">>,
       <<"_is_subobject", "is_subobject">>,
       <<"_kernel_options", "kernel_options">>,
       <<"_kernel_options_post", "kernel_options_post">>,
       <<"_autoinstall_meta", "autoinstall_meta">>,
       <<"_fetchable_files", "fetchable_files">>,
       <<"_boot_files", "boot_files">>, <<"_template_files", "template_files">>,
       <<"_last_cached_mtime", "last_cached_mtime">>,
       <<"_cached_dict", "cached_dict">>, <<"_mgmt_classes", "mgmt_classes">>,
       <<"_mgmt_parameters", "mgmt_parameters">>, <<"_virt_type", "virt_type">>,
       <<"_interfaces", "interfaces">>, <<"_proxy", "proxy">> >>

\* "_" + lowered_key
PrivateOf(lowered_key) == "_" \o lowered_key

\* the methods of the classes whose names start with one underscore
PrivateMethods == {"_resolve", "_resolve_enum", "_resolve_dict"}

\* hasattr(self, attribute) for a name that starts with an underscore: an
\* attribute of the object or a method of its class
hasattr(item, attribute) ==
    HasField(item, attribute) \/ attribute \in PrivateMethods

\* key.lower()
Lower(key) ==
    CASE key = "Name" -> "name"
      [] key = "UID" -> "uid"
      [] OTHER -> key

\* setattr(self, lowered_key, value): the setter of the property of that
\* name; a name without property becomes a plain attribute of the object,
\* which no operation of the item reads
setattr(item, lowered_key, value) ==
    CASE lowered_key = "uid" -> set_uid(item, value)
      [] lowered_key = "ctime" -> set_ctime(item, value)
      [] lowered_key = "mtime" -> set_mtime(item, value)
      [] lowered_key = "name" -> set_name(item, value)
      [] lowered_key = "comment" -> set_comment(item, value)
      [] lowered_key = "owners" -> set_owners(item, value)
      [] lowered_key = "parent" -> set_parent(item, value)
      [] lowered_key = "depth" -> set_depth(item, value)
      [] lowered_key = "children" -> set_children(item, value)
      [] lowered_key = "is_subobject" -> set_is_subobject(item, value)
      [] lowered_key = "kernel_options" -> set_kernel_options(item, value)
      [] lowered_key \in {"kernel_options_post", "autoinstall_meta",
                          "fetchable_files", "boot_files", "template_files"}
            -> set_dict_field(item, PrivateOf(lowered_key), value)
      [] lowered_key = "mgmt_classes" -> set_mgmt_classes(item, value)
      [] lowered_key = "mgmt_parameters" -> set_mgmt_parameters(item, value)
      [] lowered_key = "virt_type" -> set_virt_type(item, value)
      [] lowered_key = "proxy" -> set_proxy(item, value)
      [] OTHER -> Ok(item)

\* result.pop(key)
Pop(result, key) == SelectSeq(result, LAMBDA k : k # key)

RECURSIVE from_dict_loop(_, _, _)
\* the for loop of Item.from_dict and the test that follows it; result
\* holds the keys not consumed so far. An exception of a setter leaves the
\* loop at once, with the earlier keys applied. (r ranges over the one
\* outcome of the setter, so that the outcome is computed once.)
from_dict_loop(item, todo, result) ==
    IF todo = <<>>
    THEN [item |-> item, err |-> IF Len(result) > 0 THEN "KeyError" ELSE "",
          leftover |-> result]
    ELSE LET key == Head(todo)[1]
             lowered_key == Lower(key)
         IN  IF hasattr(item, PrivateOf(lowered_key))
             THEN CHOOSE out \in
                      { IF r.err # ""
                        THEN [item |-> r.item, err |-> r.err, leftover |-> result]
                        ELSE from_dict_loop(r.item, Tail(todo), Pop(result, key)) :
                        r \in {setattr(item, lowered_key, Head(todo)[2])} } : TRUE
             ELSE from_dict_loop(item, Tail(todo), result)

\* Item.from_dict
from_dict(item, dictionary) ==
    from_dict_loop(item, dictionary,
                   [i \in 1..Len(dictionary) |-> dictionary[i][1]])

\* "key in value" and value[key] for a dict of fields
HasKey(value, key) == \E i \in 1..Len(value) : value[i][1] = key

Lookup(value, key) == value[CHOOSE i \in 1..Len(value) : value[i][1] = key][2]

\* the attributes to_dict leaves out
SkippedFields ==
    {"_conceptual_parent", "_last_cached_mtime", "_cached_dict",
     "_supported_boot_loaders"}

\* getattr(self, new_key) in to_dict: a resolving getter where the class
\* has one, else the getter that returns the private attribute
property_get(its, st, x, new_key) ==
    IF ClassHasProperty(its[x].kind, new_key)
    THEN getattr(its, st, x, new_key, RecursionLimit)
    ELSE Return(its[x][PrivateOf(new_key)])

\* what to_dict stores under the key of one attribute
to_dict_value(its, st, x, attribute, new_key, resolved) ==
    LET key_value == its[x][attribute]
    IN  IF key_value.t = "enum" THEN Return(Str(key_value.s))
        ELSE IF new_key = "interfaces" THEN Return(key_value)
        ELSE IF key_value.t = "list" THEN Return(key_value)
        ELSE IF key_value.t = "dict"
        THEN (IF resolved THEN property_get(its, st, x, new_key)
              ELSE Return(key_value))
        ELSE IF key_value.t = "str" /\ key_value = VALUE_INHERITED /\ resolved
        THEN property_get(its, st, x, new_key)
        ELSE Return(key_value)

RECURSIVE to_dict_loop(_, _, _, _, _, _)
\* the for loop of Item.to_dict over self.__dict__, from attribute i on
to_dict_loop(its, st, x, resolved, i, value) ==
    IF i > Len(Fields) THEN [pairs |-> value, err |-> ""]
    ELSE LET attribute == Fields[i][1]
             new_key == Fields[i][2]
         IN  IF ~HasField(its[x], attribute) \/ attribute \in SkippedFields
             THEN to_dict_loop(its, st, x, resolved, i + 1, value)
             ELSE LET v == to_dict_value(its, st, x, attribute, new_key, resolved)
                  IN  IF v.err # "" THEN [pairs |-> value, err |-> v.err]
                      ELSE to_dict_loop(its, st, x, resolved, i + 1,
                                        Append(value, <<new_key, v.val>>))

\* value.update({alias: value[key]}) if key is in value
update_alias(value, key, alias) ==
    IF HasKey(value, key) THEN Append(value, <<alias, Lookup(value, key)>>)
    ELSE value

\* Item.to_dict: the loop, then the two aliases kickstart and ks_meta
to_dict(its, st, x, resolved) ==
    CHOOSE out \in
        { IF d.err # "" THEN d
          ELSE [pairs |-> update_alias(update_alias(d.pairs, "autoinstall", "kickstart"),
                                       "autoinstall_meta", "ks_meta"),
                err |-> ""] :
          d \in {to_dict_loop(its, st, x, resolved, 1, <<>>)} } : TRUE

keys_to_drop == {"kickstart", "ks_meta", "remote_grub_kernel", "remote_grub_initrd"}

\* Item.serialize with uid among the keys to drop
serialize_DropsUid(its, st, x) ==
    SelectSeq(to_dict(its, st, x, FALSE).pairs,
              LAMBDA kv : kv[1] \notin keys_to_drop \cup {"uid"})

\* Item.serialize
serialize(its, st, x) ==
    SelectSeq(to_dict(its, st, x, FALSE).pairs, LAMBDA kv : kv[1] \notin keys_to_drop)

\* Item.deserialize
deserialize(item, item_dict) == from_dict(item, item_dict)

----------------------------------------------------------------------------
(* Behaviours of one item: every setter, from_dict, the reads, and the     *)
(* round trip through serialize and deserialize into a new item.           *)

\* the item the operations are called on
XItem == "i1"

\* the uid uuid4 gives the item built for the round trip
FreshUid == "y"

InitItem ==
    /\ items = [x \in Items |-> NewItem("generic", x, BoolV("False"))]
    /\ settings = SettingsA
    /\ ret = NoCall

\* what a call of a method without return value gives: None, or the
\* exception the method raised
Outcome(r) == IF r.err = "" THEN Return(NoneV) ELSE Raise(r.err)

SetUid ==
    \E uid \in {Str(<<"u2">>)} :
        \E r \in {set_uid(items[XItem], uid)} :
            /\ items' = [items EXCEPT ![XItem] = r.item]
            /\ ret' = CallWith("set_uid", XItem, "", uid, <<>>, Outcome(r))
            /\ UNCHANGED settings

SetCtime ==
    \E ctime \in {Flt("1.5"), IntV("1")} :
        \E r \in {set_ctime(items[XItem], ctime)} :
            /\ items' = [items EXCEPT ![XItem] = r.item]
            /\ ret' = CallWith("set_ctime", XItem, "", ctime, <<>>, Outcome(r))
            /\ UNCHANGED settings

NameInputs ==
    {Str(<<"a", ".", "0">>), Str(<<"a", "\n">>), Str(<<"\n", "a">>),
     Str(<<"b", "a", "d", " ", "n", "a", "m", "e", "!">>), IntV("7")}

SetName ==
    \E name \in NameInputs :
        \E r \in {set_name(items[XItem], name)} :
            /\ items' = [items EXCEPT ![XItem] = r.item]
            /\ ret' = CallWith("set_name", XItem, "", name, <<>>, Outcome(r))
            /\ UNCHANGED settings

SetComment ==
    \E comment \in {NoneV} :
        \E r \in {set_comment(items[XItem], comment)} :
            /\ items' = [items EXCEPT ![XItem] = r.item]
            /\ ret' = CallWith("set_comment", XItem, "", comment, <<>>, Outcome(r))
            /\ UNCHANGED settings

SetItemOwners ==
    \E owners \in {Str(<<"u", " ", "v">>), IntV("7")} :
        \E r \in {set_owners(items[XItem], owners)} :
            /\ items' = [items EXCEPT ![XItem] = r.item]
            /\ ret' = CallWith("set_owners", XItem, "", owners, <<>>, Outcome(r))
            /\ UNCHANGED settings

SetItemKernelOptions ==
    \E options \in {VALUE_INHERITED, Str(<<"a", "=", "1">>), Lst(<<>>)} :
        \E r \in {set_kernel_options(items[XItem], options)} :
            /\ items' = [items EXCEPT ![XItem] = r.item]
            /\ ret' = CallWith("set_kernel_options", XItem, "", options, <<>>, Outcome(r))
            /\ UNCHANGED settings

\* result.keys(), which the KeyError of from_dict reports
KeysOf(result) == Lst([i \in 1..Len(result) |-> <<result[i]>>])

\* the dictionaries given to from_dict
FromDictInputs ==
    { << <<"Name", Str(<<"z">>)>>, <<"comment", NoneV>> >>,
      << <<"UID", Str(<<"u2">>)>>, <<"cached_dict", Str(<<"c">>)>> >>,
      << <<"name", Str(<<"z">>)>>, <<"bogus", Str(<<"c">>)>> >>,
      << <<"ctime", IntV("1")>>, <<"name", Str(<<"z">>)>> >>,
      << <<"comment", NoneV>>, <<"name", Str(<<"a", " ">>)>> >>,
      << <<"mgmt_parameters", Str(<<"a">>)>> >>,
      << <<"_name", Str(<<"a", " ">>)>> >>,
      << <<"resolve", Str(<<"c">>)>>, <<"comment", NoneV>> >>,
      << <<"is_subobject", BoolV("True")>>, <<"depth", IntV("2")>>,
         <<"children", Lst(<<<<"b">>>>)>>, <<"parent", Str(<<"b">>)>> >> }

FromDict ==
    \E dictionary \in FromDictInputs :
        \E r \in {from_dict(items[XItem], dictionary)} :
            /\ items' = [items EXCEPT ![XItem] = r.item]
            /\ ret' = CallWith("from_dict", XItem, "", NoneV, dictionary,
                               IF r.err = "KeyError"
                               THEN [val |-> KeysOf(r.leftover), err |-> r.err]
                               ELSE Outcome(r))
            /\ UNCHANGED settings

\* the reads: a resolved property, the conceptual parent, the descendants
\* and both forms of to_dict
ReadItem ==
    /\ \/ \E p \in {"owners", "kernel_options", "mgmt_parameters"} :
            ret' = Call("resolve", XItem, p,
                        getattr(items, settings, XItem, p, RecursionLimit))
       \/ ret' = Call("descendants", XItem, "",
                      descendants(items, XItem, RecursionLimit))
       \/ \E resolved \in BOOLEAN :
            LET d == to_dict(items, settings, XItem, resolved)
            IN  ret' = CallWith("to_dict", XItem, "", NoneV, d.pairs, Outcome(d))
    /\ UNCHANGED <<items, settings>>

\* y = a new item of the kind of x; y.deserialize(x.serialize()); the call
\* records y.to_dict()
RoundTrip ==
    \E item_dict \in {serialize(items, settings, XItem)} :
        \E r \in {deserialize(NewItem(items[XItem].kind, FreshUid, BoolV("False")),
                              item_dict)} :
            /\ ret' = CallWith("roundtrip", XItem, "", NoneV,
                               to_dict([items EXCEPT ![XItem] = r.item], settings,
                                       XItem, FALSE).pairs,
                               Outcome(r))
            /\ UNCHANGED <<items, settings>>

NextItem ==
    \/ SetUid
    \/ SetCtime
    \/ SetName
    \/ SetComment
    \/ SetItemOwners
    \/ SetItemKernelOptions
    \/ FromDict
    \/ ReadItem
    \/ RoundTrip

SpecItem == InitItem /\ [][NextItem]_vars

----------------------------------------------------------------------------
(* Properties of one item *)

\* a dict of fields as the set of its entries: two Python dicts are equal
\* when they have the same entries, in whatever order
AsDict(pairs) == {pairs[i] : i \in 1..Len(pairs)}

\* C6: round trip. Whatever setters and from_dict calls brought the item x
\* to its state, y.deserialize(x.serialize()) on a new item y of the kind of
\* x raises nothing, and afterwards y.to_dict() equals x.to_dict(): the uid,
\* the name, the timestamps, the owners and every list and mapping field.
C6_RoundTrip ==
    ret.op = "roundtrip" =>
        /\ ret.out.err = ""
        /\ AsDict(ret.dict) = AsDict(to_dict(items, settings, XItem, FALSE).pairs)

\* a round trip of an item whose uid, name, creation time, comment, owners
\* and kernel options were all changed after construction
C6_Witness ==
    /\ ret.op = "roundtrip"
    /\ items[XItem]._uid = Str(<<"u2">>)
    /\ items[XItem]._name = Str(<<"a", ".", "0">>)
    /\ items[XItem]._ctime = Flt("1.5")
    /\ items[XItem]._comment = NoneV
    /\ items[XItem]._owners = Lst(<< <<"u">>, <<"v">> >>)
    /\ items[XItem]._kernel_options.t = "dict"
    /\ items[XItem]._kernel_options.d["a"] # Absent
    /\ <<"uid", Str(<<"u2">>)>> \in AsDict(ret.dict)

\* the name pattern ^[A-Za-z0-9_\-.:]*$ as a format of names: a string made
\* of the characters of the class and of nothing else
NamePattern(name) ==
    /\ name.t = "str"
    /\ \A i \in 1..Len(name.s) : name.s[i] \in NameChars

ValidationErrors == {"TypeError", "ValueError"}

\* C9: set_name rejects every value that is not a string and every string
\* that fails the name pattern with a validation error, leaving the name as
\* it was; hence the name of the item satisfies the pattern after any
\* sequence of set_name and from_dict calls.
C9_SetNameValidates ==
    /\ [](NamePattern(items[XItem]._name))
    /\ [][(ret'.op = "set_name" /\ ~NamePattern(ret'.arg)) =>
            /\ ret'.out.err \in ValidationErrors
            /\ items'[XItem]._name = items[XItem]._name]_vars

\* the dictionary given to from_dict has a key that lowers to "uid"
HasUidKey(dictionary) ==
    \E i \in 1..Len(dictionary) : Lower(dictionary[i][1]) = "uid"

\* C10 as stated: after any sequence of public operations, the uid setter
\* and from_dict with any keys among them, the uid of every item is the uid
\* its constructor assigned.
C10_UidImmutable == \A x \in Items : items[x]._uid = Str(<<x>>)

\* C10: the uid of an item changes only in a call of its uid setter or of
\* from_dict/deserialize with a uid key, and then to the value given; every
\* other operation (the other setters, from_dict with other keys whether it
\* fails or not, the reads, the round trip) leaves it as it was.
C10_UidChangesOnlyByUidWrite ==
    [][\A x \in Items :
         items'[x]._uid # items[x]._uid =>
            /\ ret'.item = x
            /\ \/ ret'.op = "set_uid" /\ items'[x]._uid = ret'.arg
               \/ /\ ret'.op = "from_dict"
                  /\ \E i \in 1..Len(ret'.dict) :
                        /\ Lower(ret'.dict[i][1]) = "uid"
                        /\ items'[x]._uid = ret'.dict[i][2]]_vars

\* an item whose uid was written, and which a from_dict call with other
\* keys, one of them unknown, then left with that uid
C10_Witness ==
    /\ ret.op = "from_dict"
    /\ ~HasUidKey(ret.dict)
    /\ ret.out.err = "KeyError"
    /\ items[XItem]._uid = Str(<<"u2">>)
    /\ items[XItem]._name = Str(<<"z">>)

\* the key of a dictionary has a backing field on the item
HasBackingField(item, key) == HasField(item, "_" \o Lower(key))

\* the keys of a dictionary without backing field, in the order of the dict
UnknownKeys(item, dictionary) ==
    SelectSeq([i \in 1..Len(dictionary) |-> dictionary[i][1]],
              LAMBDA key : ~HasBackingField(item, key))

\* C13: from_dict is a strict schema. If every setter it invokes succeeds,
\* from_dict(m) raises the unknown-field error (KeyError) exactly when some
\* key of m, lower-cased, has no backing field on the item; the error comes
\* after all keys were processed (the known keys are applied) and reports
\* exactly the keys that were not consumed.
C13_StrictSchema ==
    (/\ ret.op = "from_dict"
     /\ \A i \in 1..Len(ret.dict) :
           setattr(items[XItem], Lower(ret.dict[i][1]), ret.dict[i][2]).err = "") =>
        LET unknown == UnknownKeys(items[XItem], ret.dict)
        IN  /\ IF unknown = <<>> THEN ret.out.err = "" ELSE ret.out.err = "KeyError"
            /\ ret.out.err = "KeyError" => ret.out.val = KeysOf(unknown)
            /\ \A i \in 1..Len(ret.dict) :
                  HasBackingField(items[XItem], ret.dict[i][1]) =>
                      setattr(items[XItem], Lower(ret.dict[i][1]),
                              ret.dict[i][2]).item = items[XItem]

----------------------------------------------------------------------------
(* Matching an item against search criteria *)

PyBool(b) == IF b THEN BoolV("True") ELSE BoolV("False")

\* str.lower() on a string of characters
LowerChar(c) ==
    CASE c = "B" -> "b"
      [] c = "E" -> "e"
      [] c = "W" -> "w"
      [] c = "T" -> "t"
      [] OTHER -> c

str_lower(s) == [i \in 1..Len(s) |-> LowerChar(s[i])]

\* the place of the first "]" of a pattern after its first two characters
\* (the "[" and the first character of the set), 0 if there is none
ClosingBracket(pat) ==
    IF \E j \in 3..Len(pat) : pat[j] = "]"
    THEN CHOOSE j \in 3..Len(pat) : pat[j] = "]" /\ \A k \in 3..(j - 1) : pat[k] # "]"
    ELSE 0

RECURSIVE fnmatch(_, _)
\* fnmatch.fnmatch(name, pat) for patterns of literal characters, *, ? and
\* sets [seq] or [!seq] of single characters; a "[" that is not closed is a
\* literal character
fnmatch(name, pat) ==
    IF pat = <<>> THEN name = <<>>
    ELSE IF Head(pat) = "*"
    THEN fnmatch(name, Tail(pat)) \/ (name # <<>> /\ fnmatch(Tail(name), pat))
    ELSE IF name = <<>> THEN FALSE
    ELSE IF Head(pat) = "?" THEN fnmatch(Tail(name), Tail(pat))
    ELSE IF Head(pat) = "[" /\ ClosingBracket(pat) # 0
    THEN LET j == ClosingBracket(pat)
             negated == pat[2] = "!"
             chars == {pat[k] : k \in (IF negated THEN 3 ELSE 2)..(j - 1)}
         IN  /\ (Head(name) \in chars) # negated
             /\ fnmatch(Tail(name), SubSeq(pat, j + 1, Len(pat)))
    ELSE Head(name) = Head(pat) /\ fnmatch(Tail(name), Tail(pat))

\* the characters that make __find_compare use fnmatch
Wildcards == {"?", "*", "["}

\* the elements a for loop gets from what input_string_or_list returned: the
\* elements of a list, the characters of a string
Elements(v) == IF v.t = "list" THEN v.l ELSE [i \in 1..Len(v.s) |-> <<v.s[i]>>]

\* Item.__find_compare comparing strings as they are, without lower()
Item_find_compare_CaseSensitive(from_search, from_obj) ==
    IF from_obj.t = "str" /\ from_search.t = "str"
    THEN (IF \A i \in 1..Len(from_search.s) : from_search.s[i] \notin Wildcards
          THEN Return(PyBool(from_obj.s = from_search.s))
          ELSE Return(PyBool(fnmatch(from_obj.s, from_search.s))))
    ELSE Raise("TypeError")

\* Item.__find_compare
Item_find_compare(from_search, from_obj) ==
    IF from_obj.t = "str"
    THEN (IF from_search.t # "str" THEN Raise("AttributeError")
          ELSE LET from_obj_lower == str_lower(from_obj.s)
                   from_search_lower == str_lower(from_search.s)
               IN  IF \A i \in 1..Len(from_search_lower) :
                         from_search_lower[i] \notin Wildcards
                   THEN Return(PyBool(from_obj_lower = from_search_lower))
                   ELSE Return(PyBool(fnmatch(from_obj_lower, from_search_lower))))
    ELSE IF from_search.t = "str" /\ from_obj.t = "list"
    THEN LET elements == Elements(input_string_or_list(from_search))
         IN  Return(PyBool(\A i \in 1..Len(elements) :
                              \E j \in 1..Len(from_obj.l) : from_obj.l[j] = elements[i]))
    ELSE IF from_search.t = "str" /\ from_obj.t = "dict"
    THEN LET parsed == input_string_or_dict(from_search)
         IN  IF parsed.err # "" THEN parsed
             ELSE IF parsed.val.t # "dict" THEN Raise("AttributeError")
             ELSE Return(PyBool(\A dict_key \in DictKeys :
                                   parsed.val.d[dict_key] # Absent =>
                                       from_obj.d[dict_key] = parsed.val.d[dict_key]))
    ELSE IF from_search.t = "str" /\ from_obj.t = "bool"
    THEN LET inp == str_lower(from_search.s) \in
                        {<<"t", "r", "u", "e">>, <<"1">>, <<"y">>, <<"y", "e", "s">>}
         IN  Return(PyBool(PyBool(inp) = from_obj))
    ELSE Raise("TypeError")

\* the keys find_match_single_key looks up in the interfaces of a system
InterfaceKeys ==
    {"cnames", "connected_mode", "if_gateway", "ipv6_default_gateway", "ipv6_mtu",
     "ipv6_prefix", "ipv6_secondaries", "ipv6_static_routes", "management", "mtu",
     "static", "mac_address", "ip_address", "ipv6_address", "netmask",
     "virt_bridge", "dhcp_tag", "dns_name", "static_routes", "interface_type",
     "interface_master", "bonding_opts", "bridge_opts", "interface"}

RECURSIVE interfaces_loop(_, _, _)
\* the for loop of find_match_single_key over data["interfaces"].items():
\* True if the loop returned True, None if it ran to its end
interfaces_loop(interfaces, key, value) ==
    IF interfaces = <<>> THEN Return(NoneV)
    ELSE LET name == Head(interfaces)[1]
             interface == Head(interfaces)[2]
         IN  IF value = Str(name) THEN Return(PyBool(TRUE))
             ELSE IF value # NoneV /\ HasKey(interface, key)
             THEN LET c == Item_find_compare(Lookup(interface, key), value)
                  IN  IF c.err # "" \/ c.val = PyBool(TRUE) THEN c
                      ELSE interfaces_loop(Tail(interfaces), key, value)
             ELSE interfaces_loop(Tail(interfaces), key, value)

\* Item.find_match_single_key
find_match_single_key(data, key, value, no_errors) ==
    LET key_found_already == HasKey(data, "interfaces") /\ key \in InterfaceKeys
        looped == IF key_found_already
                  THEN interfaces_loop(Lookup(data, "interfaces").l, key, value)
                  ELSE Return(NoneV)
    IN  IF looped.err # "" \/ looped.val # NoneV THEN looped
        ELSE IF ~HasKey(data, key) /\ ~key_found_already /\ ~no_errors
        THEN Return(PyBool(FALSE))
        ELSE IF ~HasKey(data, key) /\ key_found_already /\ value # NoneV
        THEN Return(PyBool(FALSE))
        ELSE IF value = NoneV THEN Return(PyBool(TRUE))
        ELSE IF ~HasKey(data, key) THEN Raise("KeyError")
        ELSE Item_find_compare(value, Lookup(data, key))

\* value.startswith("~")
StartsWithTilde(value) == Len(value.s) > 0 /\ value.s[1] = "~"

RECURSIVE find_match_loop(_, _, _)
\* the for loop of Item.find_match over kwargs.items()
find_match_loop(data, kwargs, no_errors) ==
    IF kwargs = <<>> THEN Return(PyBool(TRUE))
    ELSE LET key == Head(kwargs)[1]
             value == Head(kwargs)[2]
         IN  IF value # NoneV /\ value.t # "str" THEN Raise("AttributeError")
             ELSE LET negate == value # NoneV /\ StartsWithTilde(value)
                      single == find_match_single_key(
                                    data, key,
                                    IF negate THEN Str(Tail(value.s)) ELSE value,
                                    no_errors)
                  IN  IF single.err # "" THEN single
                      ELSE IF (single.val = PyBool(TRUE)) = negate
                      THEN Return(PyBool(FALSE))
                      ELSE find_match_loop(data, Tail(kwargs), no_errors)

\* Item.find_match
find_match(its, st, x, kwargs, no_errors) ==
    CHOOSE out \in { find_match_loop(data, kwargs, no_errors) :
                     data \in {to_dict(its, st, x, FALSE).pairs} } : TRUE

----------------------------------------------------------------------------
(* Behaviours of searching: the fields of one item are set, and the item   *)
(* is matched against criteria.                                            *)

WEBSERVER01 == <<"w", "e", "b", "s", "e", "r", "v", "e", "r", "0", "1">>

DBSERVER01 == <<"d", "b", "s", "e", "r", "v", "e", "r", "0", "1">>

\* the item is a generic item or a system, which has network interfaces
InitFind ==
    /\ \E kind \in {"generic", "system"} :
         items = [x \in Items |->
                    NewItem(IF x = XItem THEN kind ELSE "generic", x, BoolV("False"))]
    /\ settings = SettingsA
    /\ ret = [no_errors |-> FALSE] @@ NoCall

\* no call of a search method yet, or none since the last setter call
NoFind == [no_errors |-> FALSE] @@ NoCall

\* x.name = name
FindSetName ==
    \E name \in {Str(WEBSERVER01), Str(DBSERVER01)} :
        /\ items' = [items EXCEPT ![XItem] = set_name(items[XItem], name).item]
        /\ ret' = NoFind
        /\ UNCHANGED settings

\* x.owners = "a b"
FindSetOwners ==
    /\ items' = [items EXCEPT
                   ![XItem] = set_owners(items[XItem], Str(<<"a", " ", "b">>)).item]
    /\ ret' = NoFind
    /\ UNCHANGED settings

\* the interfaces of a system: one interface eth0 with a MAC address, a
\* static flag and a list of CNAMEs
Eth0 ==
    << <<"e", "t", "h", "0">>,
       << <<"mac_address", Str(<<"a", "a", ":", "b", "b">>)>>,
          <<"static", BoolV("True")>>,
          <<"cnames", Lst(<< <<"c">> >>)>> >> >>

\* system.interfaces = {"eth0": ...}
FindSetInterfaces ==
    /\ items[XItem].kind = "system"
    /\ items' = [items EXCEPT ![XItem]._interfaces = Interfaces(<<Eth0>>)]
    /\ ret' = NoFind
    /\ UNCHANGED settings

\* the criteria: a key and the value searched for
Criteria ==
    { <<"name", Str(<<"w", "e", "b", "*">>)>>,
      <<"name", Str(<<"~", "w", "e", "b", "*">>)>>,
      <<"name", Str(<<"~", "~", "w", "e", "b", "*">>)>>,
      <<"name", Str(<<"W", "E", "B", "*">>)>>,
      <<"name", Str(<<"~", "w", "e", "b">>)>>,
      <<"name", Str(WEBSERVER01)>>,
      <<"name", Str(<<"?", "b", "s", "e", "r", "v", "e", "r", "0", "1">>)>>,
      <<"name", Str(<<"[", "d", "w", "]", "*", "0", "1">>)>>,
      <<"name", Str(<<"[", "!", "d", "]", "*">>)>>,
      <<"name", NoneV>>,
      <<"owners", Str(<<"a">>)>>,
      <<"owners", Str(<<"~", "a">>)>>,
      <<"owners", Str(<<"c">>)>>,
      <<"kernel_options", Str(<<"a", "=", "1">>)>>,
      <<"is_subobject", Str(<<"y", "e", "s">>)>>,
      <<"is_subobject", Str(<<"~", "T", "r", "u", "e">>)>>,
      <<"depth", Str(<<"0">>)>>,
      <<"bogus", Str(<<"c">>)>>,
      <<"bogus", Str(<<"~", "c">>)>>,
      <<"bogus", NoneV>>,
      <<"mac_address", Str(<<"a", "a", ":", "*">>)>>,
      <<"mac_address", Str(<<"a", "a", ":", "b", "b">>)>>,
      <<"mac_address", Str(<<"~", "A", "A", ":", "b", "b">>)>>,
      <<"mac_address", Str(<<"e", "t", "h", "0">>)>>,
      <<"mac_address", NoneV>>,
      <<"dns_name", Str(<<"c">>)>>,
      <<"static", Str(<<"t", "r", "u", "e">>)>>,
      <<"cnames", Str(<<"c">>)>> }

\* the criteria dicts given to find_match: every single criterion, and
\* some dicts of two criteria
FindInputs ==
    { <<c>> : c \in Criteria } \cup
    { << <<"name", Str(<<"w", "e", "b", "*">>)>>, <<"owners", Str(<<"a">>)>> >>,
      << <<"owners", Str(<<"a">>)>>, <<"name", Str(<<"~", "w", "e", "b", "*">>)>> >>,
      << <<"name", Str(<<"d", "b", "*">>)>>, <<"depth", Str(<<"0">>)>> >> }

\* x.find_match(kwargs, no_errors): data = self.to_dict(), then the loop
\* over the criteria
FindMatch ==
    \E data \in {to_dict(items, settings, XItem, FALSE).pairs} :
        \E kwargs \in FindInputs, no_errors \in BOOLEAN :
            /\ ret' = [no_errors |-> no_errors] @@
                      CallWith("find_match", XItem, "", NoneV, kwargs,
                               find_match_loop(data, kwargs, no_errors))
            /\ UNCHANGED <<items, settings>>

\* x.find_match_single_key(x.to_dict(), key, value, no_errors)
FindMatchSingleKey ==
    \E data \in {to_dict(items, settings, XItem, FALSE).pairs} :
        \E c \in Criteria, no_errors \in BOOLEAN :
            /\ ret' = [no_errors |-> no_errors] @@
                      CallWith("find_match_single_key", XItem, c[1], c[2], <<>>,
                               find_match_single_key(data, c[1], c[2], no_errors))
            /\ UNCHANGED <<items, settings>>

NextFind ==
    \/ FindSetName
    \/ FindSetOwners
    \/ FindSetInterfaces
    \/ FindMatch
    \/ FindMatchSingleKey

SpecFind == InitFind /\ [][NextFind]_vars

----------------------------------------------------------------------------
(* Properties of searching *)

\* the serialized form find_match searches: the raw to_dict of the item
DataOf(its, st) == to_dict(its, st, XItem, FALSE).pairs

\* C11: a criterion whose value starts with "~" matches exactly when the
\* same criterion without the "~" does not: whenever find_match({k: "~"+v})
\* and find_match({k: v}) both return, the first returns the negation of
\* the second, also when k is not a key of the serialized form.
C11_NegationIsComplement ==
    (/\ ret.op = "find_match"
     /\ Len(ret.dict) = 1
     /\ ret.dict[1][2].t = "str"
     /\ StartsWithTilde(ret.dict[1][2])
     /\ ret.out.err = "") =>
        LET plain == find_match(items, settings, XItem,
                                << <<ret.dict[1][1], Str(Tail(ret.dict[1][2].s))>> >>,
                                ret.no_errors)
        IN  plain.err = "" => ret.out.val = PyBool(plain.val = PyBool(FALSE))

\* C12: when the value stored under a top-level key is a string,
\* find_match_single_key compares without regard to case: by equality if
\* the criterion has none of the characters *, ? and [, by glob matching of
\* the stored value against the criterion otherwise; so "web*" matches the
\* name "webserver01" and does not match "dbserver01".
C12_StringCompare ==
    (/\ ret.op = "find_match_single_key"
     /\ ret.prop \notin InterfaceKeys
     /\ HasKey(DataOf(items, settings), ret.prop)
     /\ Lookup(DataOf(items, settings), ret.prop).t = "str"
     /\ ret.arg.t = "str") =>
        LET stored == str_lower(Lookup(DataOf(items, settings), ret.prop).s)
            criterion == str_lower(ret.arg.s)
        IN  /\ ret.out.err = ""
            /\ ret.out.val =
                 PyBool(IF \E i \in 1..Len(criterion) : criterion[i] \in Wildcards
                        THEN fnmatch(stored, criterion)
                        ELSE stored = criterion)
            /\ (ret.prop = "name" /\ ret.arg = Str(<<"w", "e", "b", "*">>)) =>
                 /\ items[XItem]._name = Str(WEBSERVER01) => ret.out.val = PyBool(TRUE)
                 /\ items[XItem]._name = Str(DBSERVER01) => ret.out.val = PyBool(FALSE)

\* the name "webserver01" matched against the criterion "WEB*", which
\* matches only without regard to case and only as a glob
C12_Witness ==
    /\ ret.op = "find_match_single_key"
    /\ ret.prop = "name"
    /\ ret.arg = Str(<<"W", "E", "B", "*">>)
    /\ items[XItem]._name = Str(WEBSERVER01)
    /\ ret.out = Return(PyBool(TRUE))

\* C18: when the key is not in the serialized form and is not an interface
\* key, find_match_single_key returns False in strict mode; in lenient mode
\* it returns True for the criterion None and returns False, raising
\* nothing, for every other criterion.
C18_AbsentKey ==
    (/\ ret.op = "find_match_single_key"
     /\ ret.prop \notin InterfaceKeys
     /\ ~HasKey(DataOf(items, settings), ret.prop)) =>
        ret.out = Return(PyBool(ret.no_errors /\ ret.arg = NoneV))

\* the records of the interfaces of the item that match the criterion: the
\* name of the record is the criterion, or the record has the key and its
\* value matches with the criterion as the search pattern
RecordMatches(record, key, value) ==
    \/ value = Str(record[1])
    \/ /\ HasKey(record[2], key)
       /\ Item_find_compare(value, Lookup(record[2], key)) = Return(PyBool(TRUE))

\* C19: for a system with interfaces, a key of the interface keys and a
\* criterion that is not None, find_match_single_key returns True exactly
\* when some interface has the criterion as its name or has a value for the
\* key that matches the criterion under the comparison rule of top-level
\* keys, the criterion being the search pattern ("aa:*" matches "aa:bb").
C19_InterfaceMatch ==
    (/\ ret.op = "find_match_single_key"
     /\ ret.prop \in InterfaceKeys
     /\ HasKey(DataOf(items, settings), "interfaces")
     /\ ret.arg.t = "str"
     /\ ret.out.err = "") =>
        LET interfaces == Lookup(DataOf(items, settings), "interfaces").l
        IN  ret.out.val =
              PyBool(\E i \in 1..Len(interfaces) :
                        RecordMatches(interfaces[i], ret.prop, ret.arg))

----------------------------------------------------------------------------
(* Behaviours of the scalar walk: parents, owners and proxies are set, and *)
(* owners and a proxy_url_ property are read.                              *)

\* x.proxy = proxy, for the kinds that have the field
SetProxy ==
    \E x \in Items, proxy \in {VALUE_INHERITED, Str(<<"p">>)} :
        /\ HasField(items[x], "_proxy")
        /\ items' = [items EXCEPT ![x] = set_proxy(items[x], proxy).item]
        /\ ret' = NoCall
        /\ UNCHANGED settings

WalkProps == {"owners", "proxy_url_ext"}

\* self._resolve(property_name)
ResolveWalk ==
    \E x \in Items, property_name \in WalkProps :
        /\ ret' = Call("resolve", x, property_name,
                       InheritableItem_resolve(items, settings, x, property_name,
                                               RecursionLimit))
        /\ UNCHANGED <<items, settings>>

NextWalk == SetParent \/ SetOwners \/ SetProxy \/ ResolveWalk

SpecWalk == InitScalar /\ [][NextWalk]_vars

\* the name a property is resolved under: proxy for the names that start
\* with proxy_url_
BaseName(p) == IF StartsWithProxyUrl(p) THEN "proxy" ELSE p

\* the settings key consulted for a property
SettingsKeyOf(p) == IF p = "owners" THEN "default_ownership" ELSE BaseName(p)

\* C16: for an item x on a finite parent chain whose stored value for p is
\* INHERIT, a read of p returns what the parent resolves p to when x has a
\* parent and the parent exposes p; otherwise the settings attribute p if the
\* settings have it, else the settings attribute default_p. For owners the
\* settings key is default_ownership; a name that starts with proxy_url_ is
\* resolved under the name proxy.
C16_ScalarWalk ==
    (/\ ret.op = "resolve"
     /\ FiniteChain(items, ret.item)
     /\ HasField(items[ret.item], "_" \o BaseName(ret.prop))
     /\ items[ret.item]["_" \o BaseName(ret.prop)] = VALUE_INHERITED) =>
        LET p == BaseName(ret.prop)
            y == parent(items, ret.item)
            key == SettingsKeyOf(ret.prop)
        IN  IF y # NoItem /\ ClassHasProperty(items[y].kind, p)
            THEN ret.out = getattr(items, settings, y, p, RecursionLimit)
            ELSE IF SettingsHas(settings, key)
            THEN ret.out = Return(settings[key])
            ELSE SettingsHas(settings, "default_" \o key) =>
                    ret.out = Return(settings["default_" \o key])

\* a read of proxy_url_ext on an item whose proxy is INHERIT and whose
\* parent has a proxy of its own, which is what the read returns
C16_Witness ==
    /\ ret.op = "resolve"
    /\ ret.prop = "proxy_url_ext"
    /\ HasField(items[ret.item], "_proxy")
    /\ items[ret.item]._proxy = VALUE_INHERITED
    /\ parent(items, ret.item) # NoItem
    /\ HasField(items[parent(items, ret.item)], "_proxy")
    /\ ret.out = Return(Str(<<"p">>))

----------------------------------------------------------------------------
(* Properties of grab_tree and of dangling names *)

\* C15: whenever grab_tree returns, its result is the item itself, then its
\* parent, its grandparent and so on in the order of the chain up to the
\* root, then the settings object: at least two elements, the settings once
\* and last. It returns for every item whose parent chain is finite.
C15_GrabTree ==
    ret.op = "grab_tree" =>
        /\ FiniteChain(items, ret.item) => ret.out.err = ""
        /\ ret.out.err = "" =>
             LET results == ret.out.val.l
                 n == Len(results)
             IN  /\ n >= 2
                 /\ results[1] = <<ret.item>>
                 /\ results[n] = SettingsObject
                 /\ \A i \in 1..(n - 1) : results[i] # SettingsObject
                 /\ \A i \in 2..(n - 1) :
                       results[i] = <<parent(items, results[i - 1][1])>>
                 /\ parent(items, results[n - 1][1]) = NoItem

\* grab_tree of an item with a parent and a grandparent
C15_Witness ==
    /\ ret.op = "grab_tree"
    /\ ret.out.err = ""
    /\ Len(ret.out.val.l) = 4

\* C17: a dangling name never crashes a tree operation. For descendants: a
\* child name without item is skipped, so that reading descendants never
\* fails on a missing item.
C17_DanglingChild ==
    ret.op = "descendants" => ret.out.err # "AttributeError"

\* get_conceptual_parent and grab_tree with a dangling parent name on the
\* chain: both return, the missing item ending the chain
DanglingParentTolerated ==
    (/\ ret.op \in {"get_conceptual_parent", "grab_tree"}
     /\ FiniteChain(items, ret.item)) => ret.out.err = ""

----------------------------------------------------------------------------
(* Behaviours of a tree of items whose fields are read with to_dict, raw   *)
(* and resolved. The settings supply every terminus.                       *)

\* x.virt_type = virt_type, for the kinds that have the field
SetVirtType ==
    \E x \in Items, virt_type \in {VALUE_INHERITED, Str(<<"xen">>)} :
        /\ HasField(items[x], "_virt_type")
        /\ items' = [items EXCEPT ![x] = set_virt_type(items[x], virt_type).item]
        /\ ret' = NoCall
        /\ UNCHANGED settings

\* x.to_dict(resolved)
ToDict ==
    \E x \in Items, resolved \in BOOLEAN :
        \E d \in {to_dict(items, settings, x, resolved)} :
            /\ ret' = CallWith("to_dict", x, IF resolved THEN "resolved" ELSE "raw",
                               NoneV, d.pairs, Outcome(d))
            /\ UNCHANGED <<items, settings>>

NextResolved == SetParent \/ SetOwners \/ SetVirtType \/ ToDict

SpecResolved == InitChildren /\ [][NextResolved]_vars

----------------------------------------------------------------------------
(* Properties of to_dict *)

\* the keys of a dict of fields
KeySet(pairs) == {pairs[i][1] : i \in 1..Len(pairs)}

\* the resolvable properties of the class of an item
Resolvable(item) ==
    {p \in ScalarProps \cup EnumProps \cup DictProps \cup {"proxy"} :
        ClassHasProperty(item.kind, p)}

\* the stored value of a resolvable property is the sentinel: the string, or
\* the member of an enum that wraps it
StoredInherit(item, p) ==
    \/ item[Attr(p)] = VALUE_INHERITED
    \/ item[Attr(p)] = EnumV(INHERIT_TOKEN)

\* C14: to_dict(resolved=True) has the keys of the raw to_dict, holds the
\* sentinel under no resolvable key, and holds, for every resolvable field
\* whose stored value is INHERIT (the string, or the enum member wrapping
\* it), the result of the resolve operation of that property; the settings
\* supply a terminus for every property.
C14_ResolvedDict ==
    (ret.op = "to_dict" /\ ret.prop = "resolved" /\ ret.out.err = "") =>
        /\ KeySet(ret.dict) = KeySet(to_dict(items, settings, ret.item, FALSE).pairs)
        /\ \A p \in Resolvable(items[ret.item]) :
             /\ Lookup(ret.dict, p) \notin {VALUE_INHERITED, EnumV(INHERIT_TOKEN)}
             /\ StoredInherit(items[ret.item], p) =>
                  LET r == getattr(items, settings, ret.item, p, RecursionLimit)
                  IN  Lookup(ret.dict, p) =
                        IF r.val.t = "enum" THEN Str(r.val.s) ELSE r.val

----------------------------------------------------------------------------
(* Behaviours of the three resolvers over every assignment of parent       *)
(* references, and their termination.                                      *)

\* the property read through each resolver
ResolverOf(property_name) ==
    IF property_name \in EnumProps THEN "resolve_enum"
    ELSE IF property_name \in DictProps THEN "resolve_dict"
    ELSE "resolve"

ResolvedProps == {"owners", "virt_type", "kernel_options"}

\* reading x.owners, x.virt_type or x.kernel_options
ResolveAny ==
    \E x \in Items, property_name \in ResolvedProps :
        /\ ClassHasProperty(items[x].kind, property_name)
        /\ ret' = Call(ResolverOf(property_name), x, property_name,
                       getattr(items, settings, x, property_name, RecursionLimit))
        /\ UNCHANGED <<items, settings>>

NextResolve == SetParent \/ SetOwners \/ SetVirtType \/ ResolveAny

SpecResolve == InitScalar /\ [][NextResolve]_vars

\* the recursion of the call was cut off: the walk went through more items
\* than there are
Unbounded(out) == out.err = "RecursionError"

\* C20: for every assignment of parent references among the items, a call
\* of a resolver walks through no more items than there are, every step
\* finding a value of its own or deferring to the parent, and ends at the
\* settings at the latest: the recursion is never cut off.
C20_ResolutionTerminates ==
    ret.op \in {"resolve", "resolve_enum", "resolve_dict"} =>
        ~Unbounded(ret.out)

\* on a finite chain of parents no call is cut off
C20_FiniteChainsTerminate ==
    (/\ ret.op \in {"resolve", "resolve_enum", "resolve_dict"}
     /\ FiniteChain(items, ret.item)) =>
        ~Unbounded(ret.out)

----------------------------------------------------------------------------
(* Behaviours of the subobject flag: items constructed with either value   *)
(* of is_subobject, then the setters of is_subobject and parent and        *)
(* from_dict.                                                              *)

\* InheritableItem(api, is_subobject) for each item of the tree
InitSubobject ==
    /\ \E flag \in [Items -> BOOLEAN] :
          items = [x \in Items |->
                      [Named(TreeKind(x), x) EXCEPT !._is_subobject = PyBool(flag[x])]]
    /\ settings = SettingsA
    /\ ret = NoCall

\* x.is_subobject = value
SetIsSubobject ==
    \E x \in Items, value \in {BoolV("True"), BoolV("False"), IntV("1")} :
        \E r \in {set_is_subobject(items[x], value)} :
            /\ items' = [items EXCEPT ![x] = r.item]
            /\ ret' = CallWith("set_is_subobject", x, "", value, <<>>, Outcome(r))
            /\ UNCHANGED settings

\* the dictionaries given to from_dict: the flag alone, and the flag with a
\* parent name
SubobjectDicts ==
    { << <<"is_subobject", b>> >> : b \in {BoolV("True"), BoolV("False")} }
    \cup { << <<"is_subobject", BoolV("True")>>, <<"parent", n>> >> :
              n \in ParentNames }

\* x.from_dict(dictionary)
SubobjectFromDict ==
    \E x \in Items, dictionary \in SubobjectDicts :
        \E r \in {from_dict(items[x], dictionary)} :
            /\ items' = [items EXCEPT ![x] = r.item]
            /\ ret' = CallWith("from_dict", x, "", NoneV, dictionary, Outcome(r))
            /\ UNCHANGED settings

NextSubobject == SetIsSubobject \/ SetParent \/ SubobjectFromDict

SpecSubobject == InitSubobject /\ [][NextSubobject]_vars

\* C21: in every state reached through the constructor, the setters of
\* is_subobject and parent and from_dict, an item whose is_subobject is
\* True has a parent, and the parent is of the kind of the item.
C21_SubobjectParentOfSameKind ==
    \A x \in Items :
        items[x]._is_subobject = BoolV("True") =>
            /\ parent(items, x) # NoItem
            /\ items[parent(items, x)].kind = items[x].kind

----------------------------------------------------------------------------
(* Behaviours of the modification time: one profile of the tree, written   *)
(* by the setter of mtime, by from_dict and by the other setters, and read *)
(* by the resolvers, to_dict, serialize, find_match, get_conceptual_parent *)
(* and grab_tree.                                                          *)

\* the item the operations are called on
MItem == "i2"

\* x.mtime = mtime
SetMtime ==
    \E mtime \in {Flt("2.5"), IntV("2")} :
        \E r \in {set_mtime(items[MItem], mtime)} :
            /\ items' = [items EXCEPT ![MItem] = r.item]
            /\ ret' = CallWith("set_mtime", MItem, "mtime", mtime, <<>>, Outcome(r))
            /\ UNCHANGED settings

\* x.from_dict(dictionary), for dictionaries with and without the key
\* mtime, the value of mtime well-typed or not
MtimeFromDict ==
    \E dictionary \in
          { << <<"mtime", Flt("3.5")>> >>,
            << <<"comment", Str(<<"e">>)>>, <<"MTime", Flt("3.5")>> >>,
            << <<"comment", Str(<<"e">>)>>, <<"mtime", IntV("3")>> >>,
            << <<"comment", Str(<<"e">>)>>, <<"ctime", Flt("1.5")>> >>,
            << <<"name", Str(<<"n">>)>>, <<"ctime", IntV("1")>> >>,
            << <<"comment", Str(<<"e">>)>>, <<"bogus", NoneV>> >> } :
        \E r \in {from_dict(items[MItem], dictionary)} :
            /\ items' = [items EXCEPT ![MItem] = r.item]
            /\ ret' = CallWith("from_dict", MItem, "", NoneV, dictionary, Outcome(r))
            /\ UNCHANGED settings

\* the assignments x.key = value to the properties other than mtime, each
\* with a value its setter takes; some with a value it refuses as well
OtherSetterInputs ==
    { <<"uid", Str(<<"i2">>)>>,
      <<"ctime", Flt("1.5")>>, <<"ctime", IntV("1")>>,
      <<"name", Str(<<"n">>)>>, <<"name", Str(<<"n", " ">>)>>, <<"name", IntV("1")>>,
      <<"comment", Str(<<"e">>)>>,
      <<"owners", Str(<<"u">>)>>, <<"owners", IntV("7")>>,
      <<"parent", TreeName("i1")>>,
      <<"depth", IntV("0")>>, <<"depth", Str(<<"0">>)>>,
      <<"children", Lst(<<>>)>>,
      <<"is_subobject", BoolV("True")>>, <<"is_subobject", IntV("1")>>,
      <<"kernel_options", Dct([a |-> <<"1">>, b |-> <<"2">>])>>,
      <<"kernel_options", IntV("7")>>,
      <<"kernel_options_post", Dct(NoDict)>>,
      <<"autoinstall_meta", Dct(NoDict)>>,
      <<"fetchable_files", Dct(NoDict)>>,
      <<"boot_files", Dct(NoDict)>>,
      <<"template_files", Dct(NoDict)>>,
      <<"mgmt_classes", Lst(<<>>)>>, <<"mgmt_classes", IntV("7")>>,
      <<"mgmt_parameters", Dct(NoDict)>>, <<"mgmt_parameters", IntV("7")>>,
      <<"virt_type", VALUE_INHERITED>>,
      <<"proxy", VALUE_INHERITED>>, <<"proxy", IntV("7")>> }

\* x.key = value for a property other than mtime
OtherSetter ==
    \E kv \in OtherSetterInputs :
        \E r \in {setattr(items[MItem], kv[1], kv[2])} :
            /\ items' = [items EXCEPT ![MItem] = r.item]
            /\ ret' = CallWith("setattr", MItem, kv[1], kv[2], <<>>, Outcome(r))
            /\ UNCHANGED settings

\* reading a resolved property
MtimeResolve ==
    \E property_name \in ResolvedProps :
        /\ ret' = Call(ResolverOf(property_name), MItem, property_name,
                       getattr(items, settings, MItem, property_name, RecursionLimit))
        /\ UNCHANGED <<items, settings>>

\* x.to_dict(resolved)
MtimeToDict ==
    \E resolved \in BOOLEAN :
        \E d \in {to_dict(items, settings, MItem, resolved)} :
            /\ ret' = CallWith("to_dict", MItem, IF resolved THEN "resolved" ELSE "raw",
                               NoneV, d.pairs, Outcome(d))
            /\ UNCHANGED <<items, settings>>

\* x.serialize()
MtimeSerialize ==
    \E item_dict \in {serialize(items, settings, MItem)} :
        /\ ret' = CallWith("serialize", MItem, "", NoneV, item_dict, Return(NoneV))
        /\ UNCHANGED <<items, settings>>

\* x.find_match(kwargs, no_errors)
MtimeFindMatch ==
    \E data \in {to_dict(items, settings, MItem, FALSE).pairs} :
        \E kwargs \in { << <<"name", Str(<<"n">>)>> >>,
                        << <<"name", Str(<<"~", "n">>)>>,
                           <<"comment", Str(<<"E">>)>> >>,
                        << <<"bogus", Str(<<"c">>)>> >> },
           no_errors \in BOOLEAN :
            /\ ret' = CallWith("find_match", MItem, "", PyBool(no_errors), kwargs,
                               find_match_loop(data, kwargs, no_errors))
            /\ UNCHANGED <<items, settings>>

\* x.get_conceptual_parent(), which stores the item it returns
MtimeGetConceptualParent ==
    \E r \in {get_conceptual_parent(items, MItem)} :
        /\ ret' = Call("get_conceptual_parent", MItem, "", r)
        /\ items' = IF r.err = "" /\ r.val # NoneV
                    THEN [items EXCEPT ![MItem]._conceptual_parent = r.val]
                    ELSE items
        /\ UNCHANGED settings

\* x.grab_tree()
MtimeGrabTree ==
    /\ ret' = Call("grab_tree", MItem, "", grab_tree(items, MItem))
    /\ UNCHANGED <<items, settings>>

NextMtime ==
    \/ SetMtime
    \/ MtimeFromDict
    \/ OtherSetter
    \/ MtimeResolve
    \/ MtimeToDict
    \/ MtimeSerialize
    \/ MtimeFindMatch
    \/ MtimeGetConceptualParent
    \/ MtimeGrabTree

SpecMtime == InitChildren /\ [][NextMtime]_vars

\* the dictionary has a key that from_dict takes for mtime
HasMtimeKey(dictionary) ==
    \E i \in 1..Len(dictionary) : Lower(dictionary[i][1]) = "mtime"

\* C22: the mtime of an item changes only in a call of the setter of mtime
\* or of from_dict with a key mtime on that item; every other operation,
\* successful or failed, leaves it as it was.
C22_MtimeNeverAutoUpdated ==
    [][\A x \in Items :
          items'[x]._mtime # items[x]._mtime =>
              /\ ret'.item = x
              /\ \/ ret'.op = "set_mtime"
                 \/ ret'.op = "from_dict" /\ HasMtimeKey(ret'.dict)]_vars

\* after mtime was written, the setter of name succeeded and the mtime is
\* still the one written
C22_Witness ==
    /\ ret.op = "setattr"
    /\ ret.prop = "name"
    /\ ret.out = Return(NoneV)
    /\ items[MItem]._name = Str(<<"n">>)
    /\ items[MItem]._mtime = Flt("2.5")

====
